---------------------------- MODULE Spec2Model ----------------------------
(***************************************************************************)
(* Post-processing of the yolox page-element detector                      *)
(* (src/src/nv_ingest/util/nim/yolox.py): normalisation of the raw         *)
(* detector output, weighted boxes fusion, table and chart expansion and   *)
(* the final confidence filter.                                            *)
(*                                                                         *)
(* Numbers.  The code works on Python/numpy floats.  The model uses exact  *)
(* fixed point: a coordinate or a confidence v is the integer v * Scale.   *)
(* Scale is 3 * 10^4, so that one step of "round(x, 4)" is 3 units and a   *)
(* value can lie off the 4-decimal grid; rounding to 4 decimals is         *)
(* Round4, which is not the identity.  Float rounding error (float32 in    *)
(* get_biggest_box, float64 elsewhere) is not modelled: every operation is *)
(* the exact rational one, and the inputs of every specification are       *)
(* chosen so that each division the model performs is exact (widths are    *)
(* multiples of 40 units where a box is expanded, confidences are          *)
(* multiples of 12 units where a mean is taken).  Ratios of areas are      *)
(* compared exactly by FracGT.                                             *)
(*                                                                         *)
(* Indices are 1-based (TLA+ sequences); column k of a numpy row is        *)
(* element k+1 of the tuple that models it.                                *)
(***************************************************************************)
EXTENDS Integers, Sequences, FiniteSets, TLC

\* ------------------------------------------------------------- numbers ---

\* Units per 1.0: 10^4 steps of round(x, 4), 3 units to the step.
Scale == 3 * 10000

\* Units of one step of the 4-decimal grid.
Step4 == Scale \div 10000

Min(a, b) == IF b < a THEN b ELSE a

Max(a, b) == IF b > a THEN b ELSE a

Abs(a) == IF a < 0 THEN 0 - a ELSE a

\* np.clip(x, lo, hi)
Clip(x, lo, hi) == Max(lo, Min(hi, x))

\* round(float(x), 4): the nearest multiple of Step4 (Step4 is odd: no ties).
Round4(x) == ((2 * x + Step4) \div (2 * Step4)) * Step4

\* The nearest integer to n / d (d > 0), ties to the even one (Python round).
RoundHalfEven(n, d) ==
    LET q == n \div d
        r == n % d
    IN  IF 2 * r < d THEN q
        ELSE IF 2 * r > d THEN q + 1
        ELSE IF q % 2 = 0 THEN q ELSE q + 1

RECURSIVE FracGT(_, _, _, _)
\* a / b > c / d for a, c >= 0 and b, d > 0, by continued fractions: exact,
\* and without forming the products a * d and c * b.
FracGT(a, b, c, d) ==
    LET qa == a \div b
        qc == c \div d
        ra == a % b
        rc == c % d
    IN  IF qa # qc THEN qa > qc
        ELSE IF ra = 0 THEN FALSE
        ELSE IF rc = 0 THEN TRUE
        ELSE FracGT(d, rc, b, ra)

\* ----------------------------------------------------------- sequences ---

Range(s) == {s[k] : k \in DOMAIN s}

RECURSIVE SeqSum(_)
SeqSum(s) == IF s = <<>> THEN 0 ELSE Head(s) + SeqSum(Tail(s))

\* np.max(s), s not empty
SeqMax(s) == CHOOSE m \in Range(s) : \A k \in DOMAIN s : s[k] <= m

\* np.min(s), s not empty
SeqMin(s) == CHOOSE m \in Range(s) : \A k \in DOMAIN s : s[k] >= m

\* np.argmax(s): the first index of the maximum
ArgMax(s) == CHOOSE k \in DOMAIN s :
                 /\ \A m \in DOMAIN s : s[m] <= s[k]
                 /\ \A m \in DOMAIN s : m < k => s[m] < s[k]

\* np.argmin(s): the first index of the minimum
ArgMin(s) == CHOOSE k \in DOMAIN s :
                 /\ \A m \in DOMAIN s : s[m] >= s[k]
                 /\ \A m \in DOMAIN s : m < k => s[m] > s[k]

\* np.mean(s): exact when the sum is a multiple of the length
Mean(s) == SeqSum(s) \div Len(s)

\* The indices k, in order, at which the boolean mask holds (np.where(mask)[0]).
RECURSIVE IndicesFrom(_, _)
IndicesFrom(mask, k) ==
    IF k > Len(mask) THEN <<>>
    ELSE (IF mask[k] THEN <<k>> ELSE <<>>) \o IndicesFrom(mask, k + 1)

IndicesOf(mask) == IndicesFrom(mask, 1)

\* s[idx] for an index sequence idx (numpy fancy indexing)
Take(s, idx) == [k \in 1..Len(idx) |-> s[idx[k]]]

\* The elements of a finite set of integers in increasing order:
\* list(set(...)) of small non-negative ints iterates in increasing order.
RECURSIVE SortedSeq(_)
SortedSeq(S) ==
    IF S = {} THEN <<>>
    ELSE LET m == CHOOSE x \in S : \A y \in S : x <= y
         IN  <<m>> \o SortedSeq(S \ {m})

\* a[key.argsort()[::-1]]: the rows of a by increasing key (a stable sort, as
\* numpy's sort of a short array is), then reversed.
SortDescRev(a, key) ==
    LET n == Len(a)
        rank(i) == Cardinality({k \in 1..n : key[k] < key[i]})
                   + Cardinality({k \in 1..n : k < i /\ key[k] = key[i]}) + 1
    IN  [p \in 1..n |-> a[CHOOSE i \in 1..n : n + 1 - rank(i) = p]]

\* ------------------------------------------------------ geometry kernel ---

\* A box is <<x1, y1, x2, y2>>; a detection is <<x1, y1, x2, y2, confidence>>.
BoxOf(d) == <<d[1], d[2], d[3], d[4]>>

\* (x2 - x1) * (y2 - y1)
Area(b) == (b[3] - b[1]) * (b[4] - b[2])

\* interArea of bb_iou_array
InterArea(a, b) ==
    Max(Min(a[3], b[3]) - Max(a[1], b[1]), 0)
    * Max(Min(a[4], b[4]) - Max(a[2], b[2]), 0)

\* boxAArea + boxBArea - interArea of bb_iou_array
UnionArea(a, b) == (Area(a) - InterArea(a, b)) + Area(b)

\* bb_iou_array(a, b) > bb_iou_array(c, d), both unions positive
IouGT(a, b, c, d) ==
    FracGT(InterArea(a, b), UnionArea(a, b), InterArea(c, d), UnionArea(c, d))

\* bb_iou_array(a, b) > num / den
IouAbove(a, b, num, den) == FracGT(InterArea(a, b), UnionArea(a, b), num, den)

\* merge_boxes(b1, b2): the envelope
merge_boxes(b1, b2) ==
    <<Min(b1[1], b2[1]), Min(b1[2], b2[2]), Max(b1[3], b2[3]), Max(b1[4], b2[4])>>

\* expand_boxes as it would be if lines 835 and 839 subtracted: the box
\* is moved instead of being scaled.
expand_box_shifted(b, r_x, r_y) ==
    LET dw == ((b[3] - b[1]) * (r_x - 100)) \div 200
        dh == ((b[4] - b[2]) * (r_y - 100)) \div 200
    IN  <<Clip(b[1] - dw, 0, Scale), Clip(b[2] - dh, 0, Scale),
          Clip(b[3] - dw, 0, Scale), Clip(b[4] - dh, 0, Scale)>>

\* expand_boxes on one row; r_x and r_y are given in percent (1.05 is 105).
expand_box(b, r_x, r_y) ==
    LET dw == ((b[3] - b[1]) * (r_x - 100)) \div 200
        dh == ((b[4] - b[2]) * (r_y - 100)) \div 200
    IN  <<Clip(b[1] - dw, 0, Scale), Clip(b[2] - dh, 0, Scale),
          Clip(b[3] + dw, 0, Scale), Clip(b[4] + dh, 0, Scale)>>

\* expand_boxes(boxes, r_x, r_y)
expand_boxes(boxes, r_x, r_y) ==
    [k \in 1..Len(boxes) |-> expand_box(boxes[k], r_x, r_y)]

\* ------------------------------------------------- weighted boxes fusion ---

\* Class indices of postprocess_results and expand_chart_bboxes.
TABLE == 0

CHART == 1

TITLE == 2

\* The bucket key "*" of a class-agnostic fusion.
StarKey == 0 - 1

\* The label slot of a merged box whose merge_labels call raised.
LabelError == 0 - 2

\* "No match": the index -1 of find_matching_box_fast.
NoMatch == 0 - 1

\* A fusion record is the 8-wide row of prefilter_boxes:
\* <<label, score, weight, model index, x1, y1, x2, y2>>.
RecBox(b) == <<b[5], b[6], b[7], b[8]>>

\* The box data checks of prefilter_boxes: swap, then clamp to [0, 1].
RepairBox(box) ==
    LET sx == IF box[3] < box[1] THEN <<box[3], box[1]>> ELSE <<box[1], box[3]>>
        sy == IF box[4] < box[2] THEN <<box[4], box[2]>> ELSE <<box[2], box[4]>>
    IN  <<Clip(sx[1], 0, Scale), Clip(sy[1], 0, Scale),
          Clip(sx[2], 0, Scale), Clip(sy[2], 0, Scale)>>

\* The rows prefilter_boxes keeps of model t, from its j-th box on, in order.
RECURSIVE PrefilterModel(_, _, _, _, _, _)
PrefilterModel(boxes_t, scores_t, labels_t, t, thr, j) ==
    IF j > Len(boxes_t) THEN <<>>
    ELSE LET box == RepairBox(boxes_t[j])
             row == <<labels_t[j], scores_t[j] * 1, 1, t,
                      box[1], box[2], box[3], box[4]>>
             keep == scores_t[j] >= thr /\ Area(box) # 0
         IN  (IF keep THEN <<row>> ELSE <<>>)
             \o PrefilterModel(boxes_t, scores_t, labels_t, t, thr, j + 1)

\* The rows prefilter_boxes keeps, over the models t, t+1, ..., in order.
RECURSIVE PrefilterRows(_, _, _, _, _)
PrefilterRows(boxes, scores, labels, thr, t) ==
    IF t > Len(boxes) THEN <<>>
    ELSE PrefilterModel(boxes[t], scores[t], labels[t], t, thr, 1)
         \o PrefilterRows(boxes, scores, labels, thr, t + 1)

\* The keys of a dict in insertion order, for the keyed rows from k on.
RECURSIVE KeysInOrder(_, _, _)
KeysInOrder(keys, k, seen) ==
    IF k > Len(keys) THEN <<>>
    ELSE IF keys[k] \in seen THEN KeysInOrder(keys, k + 1, seen)
    ELSE <<keys[k]>> \o KeysInOrder(keys, k + 1, seen \cup {keys[k]})

\* prefilter_boxes: the dict label_k -> rows sorted by score, as the sequence
\* of its items [key, boxes] in insertion order.
prefilter_boxes(boxes, scores, labels, thr, class_agnostic) ==
    LET rows == PrefilterRows(boxes, scores, labels, thr, 1)
        keyOf(b) == IF class_agnostic THEN StarKey ELSE b[1]
        keys == KeysInOrder([k \in 1..Len(rows) |-> keyOf(rows[k])], 1, {})
        bucket(key) ==
            Take(rows, IndicesOf([k \in 1..Len(rows) |-> keyOf(rows[k]) = key]))
    IN  [n \in 1..Len(keys) |->
            LET cur == bucket(keys[n])
            IN  [key |-> keys[n],
                 boxes |-> SortDescRev(cur, [k \in 1..Len(cur) |-> cur[k][2]])]]

\* find_matching_box_fast as it would be if any overlap were a match: the
\* largest IoU is compared with 0 instead of match_iou.
find_matching_box_fast_any_overlap(boxes_list, new_box, match_iou) ==
    IF Len(boxes_list) = 0 THEN NoMatch
    ELSE LET nb == RecBox(new_box)
             bx(k) == RecBox(boxes_list[k])
             best_idx == CHOOSE k \in 1..Len(boxes_list) :
                 /\ \A m \in 1..Len(boxes_list) : ~IouGT(bx(m), nb, bx(k), nb)
                 /\ \A m \in 1..Len(boxes_list) :
                        m < k => IouGT(bx(k), nb, bx(m), nb)
         IN  IF ~IouAbove(bx(best_idx), nb, 0, 1)
             THEN NoMatch ELSE best_idx

\* find_matching_box_fast(boxes_list, new_box, match_iou): the first index of
\* the largest IoU with new_box, or NoMatch when that IoU is <= match_iou.
\* match_iou is the fraction <<numerator, denominator>>.
find_matching_box_fast(boxes_list, new_box, match_iou) ==
    IF Len(boxes_list) = 0 THEN NoMatch
    ELSE LET nb == RecBox(new_box)
             bx(k) == RecBox(boxes_list[k])
             best_idx == CHOOSE k \in 1..Len(boxes_list) :
                 /\ \A m \in 1..Len(boxes_list) : ~IouGT(bx(m), nb, bx(k), nb)
                 /\ \A m \in 1..Len(boxes_list) :
                        m < k => IouGT(bx(k), nb, bx(m), nb)
         IN  IF ~IouAbove(bx(best_idx), nb, match_iou[1], match_iou[2])
             THEN NoMatch ELSE best_idx

\* One pass of the "Clusterize boxes" loop of weighted_boxes_fusion: box j.
ClusterStep(boxes, clusters, j, iou_thr) ==
    LET ids == IndicesOf([i \in 1..Len(boxes) |-> i # j])
        found == find_matching_box_fast(Take(boxes, ids), boxes[j], iou_thr)
    IN  IF found # NoMatch
        THEN LET index == ids[found]
                 cluster_idx == IndicesOf([c \in 1..Len(clusters) |->
                                    j \in Range(clusters[c])
                                    \/ index \in Range(clusters[c])])
             IN  IF Len(cluster_idx) # 0
                 THEN [clusters EXCEPT ![cluster_idx[1]] =
                          SortedSeq(Range(clusters[cluster_idx[1]]) \cup {index, j})]
                 ELSE Append(clusters, <<index, j>>)
        ELSE Append(clusters, <<j>>)

\* The clusters after the loop has processed boxes j, j+1, ..., len(boxes).
RECURSIVE ClusterFrom(_, _, _, _)
ClusterFrom(boxes, clusters, j, iou_thr) ==
    IF j > Len(boxes) THEN clusters
    ELSE ClusterFrom(boxes, ClusterStep(boxes, clusters, j, iou_thr), j + 1, iou_thr)

\* merge_labels(labels, confs).  The code filters confs by "confs != 2" (the
\* confidence value, not the label), labels by "labels != 2", and indexes the
\* filtered labels with the argmax of the filtered confs.
merge_labels(labels, confs) ==
    IF Cardinality(Range(labels)) = 1 THEN labels[1]
    ELSE LET NotTwo(c) == c # 2 * Scale
             NotTitle(l) == l # TITLE
             confs2 == SelectSeq(confs, NotTwo)
             labels2 == SelectSeq(labels, NotTitle)
         IN  IF confs2 = <<>> THEN LabelError
             ELSE IF ArgMax(confs2) > Len(labels2) THEN LabelError
             ELSE labels2[ArgMax(confs2)]

\* The confidence both merges give a cluster: np.max or np.mean of conf_list.
MergedConf(boxes, conf_type) ==
    LET conf_list == [k \in 1..Len(boxes) |-> boxes[k][2]]
    IN  IF conf_type = "max" THEN SeqMax(conf_list) ELSE Mean(conf_list)

\* get_biggest_box(boxes, conf_type): the envelope of the rows.
RECURSIVE Envelope(_, _, _)
Envelope(box, boxes, k) ==
    IF k > Len(boxes) THEN box
    ELSE Envelope(merge_boxes(box, RecBox(boxes[k])), boxes, k + 1)

\* get_biggest_box as it would be without the loop of lines 735-739: the
\* box of the first row, the most confident one.
get_biggest_box_first(boxes, conf_type) ==
    LET box == RecBox(boxes[1])
        w == SeqSum([k \in 1..Len(boxes) |-> boxes[k][3]])
    IN  <<merge_labels([k \in 1..Len(boxes) |-> boxes[k][1]],
                       [k \in 1..Len(boxes) |-> boxes[k][2]]),
          MergedConf(boxes, conf_type), w, 0 - 1,
          box[1], box[2], box[3], box[4]>>

get_biggest_box(boxes, conf_type) ==
    LET box == Envelope(RecBox(boxes[1]), boxes, 1)
        w == SeqSum([k \in 1..Len(boxes) |-> boxes[k][3]])
    IN  <<merge_labels([k \in 1..Len(boxes) |-> boxes[k][1]],
                       [k \in 1..Len(boxes) |-> boxes[k][2]]),
          MergedConf(boxes, conf_type), w, 0 - 1,
          box[1], box[2], box[3], box[4]>>

\* sum_k boxes[k][2] * boxes[k][col] / conf, rounded down to the unit, summed
\* by quotient and remainder so that no intermediate exceeds one product.
WeightedCoord(boxes, col, conf) ==
    SeqSum([k \in 1..Len(boxes) |-> (boxes[k][2] * boxes[k][col]) \div conf])
    + SeqSum([k \in 1..Len(boxes) |-> (boxes[k][2] * boxes[k][col]) % conf]) \div conf

\* get_weighted_box(boxes, conf_type): the confidence-weighted mean of the rows.
get_weighted_box(boxes, conf_type) ==
    LET conf == SeqSum([k \in 1..Len(boxes) |-> boxes[k][2]])
        w == SeqSum([k \in 1..Len(boxes) |-> boxes[k][3]])
    IN  <<merge_labels([k \in 1..Len(boxes) |-> boxes[k][1]],
                       [k \in 1..Len(boxes) |-> boxes[k][2]]),
          MergedConf(boxes, conf_type), w, 0 - 1,
          WeightedCoord(boxes, 5, conf), WeightedCoord(boxes, 6, conf),
          WeightedCoord(boxes, 7, conf), WeightedCoord(boxes, 8, conf)>>

\* The body of "for j, c in enumerate(clusters)": the merged row of cluster c,
\* its confidence rescaled with weights = np.ones(len(boxes_list)).
MergeCluster(boxes, c, conf_type, merge_type, n_models) ==
    LET members == Take(boxes, c)
        weighted_box == IF merge_type = "weighted"
                        THEN get_weighted_box(members, conf_type)
                        ELSE get_biggest_box(members, conf_type)
    IN  [weighted_box EXCEPT ![2] =
            IF conf_type = "max" THEN weighted_box[2] \div 1
            ELSE (weighted_box[2] * Len(c)) \div n_models]

\* The merged rows of one bucket, in cluster order.
MergeBucket(boxes, clusters, conf_type, merge_type, n_models) ==
    [k \in 1..Len(clusters) |->
        MergeCluster(boxes, clusters[k], conf_type, merge_type, n_models)]

\* overall_boxes before the final sort: the merged rows of the buckets
\* n, n+1, ... of filtered_boxes, in order.
RECURSIVE OverallFrom(_, _, _, _, _, _)
OverallFrom(filtered_boxes, n, iou_thr, conf_type, merge_type, n_models) ==
    IF n > Len(filtered_boxes) THEN <<>>
    ELSE LET boxes == filtered_boxes[n].boxes
         IN  MergeBucket(boxes, ClusterFrom(boxes, <<>>, 1, iou_thr),
                         conf_type, merge_type, n_models)
             \o OverallFrom(filtered_boxes, n + 1, iou_thr, conf_type,
                            merge_type, n_models)

\* The tail of weighted_boxes_fusion: sort by score, split the columns.
\* raised: a merge_labels call raised, and so did weighted_boxes_fusion.
Reassemble(overall_boxes) ==
    LET sorted == SortDescRev(overall_boxes,
                      [k \in 1..Len(overall_boxes) |-> overall_boxes[k][2]])
    IN  [boxes |-> [k \in 1..Len(sorted) |-> RecBox(sorted[k])],
         scores |-> [k \in 1..Len(sorted) |-> sorted[k][2]],
         labels |-> [k \in 1..Len(sorted) |-> sorted[k][1]],
         raised |-> \E k \in 1..Len(sorted) : sorted[k][1] = LabelError]

\* weighted_boxes_fusion(boxes_list, scores_list, labels_list, iou_thr,
\*                       skip_box_thr, conf_type, merge_type, class_agnostic)
weighted_boxes_fusion(boxes_list, scores_list, labels_list, iou_thr, skip_box_thr, conf_type, merge_type, class_agnostic) ==
    LET filtered_boxes == prefilter_boxes(boxes_list, scores_list, labels_list,
                                          skip_box_thr, class_agnostic)
    IN  Reassemble(OverallFrom(filtered_boxes, 1, iou_thr, conf_type,
                               merge_type, Len(boxes_list)))

\* ------------------------------------------------------ layout heuristics ---

\* An annotation dict is [table |-> ..., chart |-> ..., title |-> ...], each a
\* sequence of detections <<x1, y1, x2, y2, confidence>>.
EmptyAnnotation == [table |-> <<>>, chart |-> <<>>, title |-> <<>>]

\* The new top edge of a table in expand_table_bboxes, rounded as line 423
\* rounds it: round(max(0.0, min(1.0, y1 - height * 0.2)), 4), in fifths of a
\* unit until the rounding.
ExpandedTop(bbox) ==
    LET height == bbox[4] - bbox[2]
        top5 == Clip(5 * bbox[2] - height, 0, 5 * Scale)
    IN  RoundHalfEven(top5, 5 * Step4) * Step4

\* expand_table_bboxes as it would be if only the table rows went through
\* line 423 and the rows of the other labels were appended as they are.
ExpandTableRowTablesOnly(label, bbox_and_score) ==
    IF label = "table"
    THEN <<Round4(bbox_and_score[1]), ExpandedTop(bbox_and_score),
           Round4(bbox_and_score[3]), Round4(bbox_and_score[4]),
           Round4(bbox_and_score[5])>>
    ELSE bbox_and_score

\* The row expand_table_bboxes appends for one entry of a label's list.
ExpandTableRow(label, bbox_and_score) ==
    <<Round4(bbox_and_score[1]),
      IF label = "table" THEN ExpandedTop(bbox_and_score)
      ELSE Round4(bbox_and_score[2]),
      Round4(bbox_and_score[3]), Round4(bbox_and_score[4]),
      Round4(bbox_and_score[5])>>

\* expand_table_bboxes(annotation_dict)
expand_table_bboxes(annotation_dict) ==
    IF Len(annotation_dict.table) = 0 THEN annotation_dict
    ELSE [table |-> [k \in 1..Len(annotation_dict.table) |->
                        ExpandTableRow("table", annotation_dict.table[k])],
          chart |-> [k \in 1..Len(annotation_dict.chart) |->
                        ExpandTableRow("chart", annotation_dict.chart[k])],
          title |-> [k \in 1..Len(annotation_dict.title) |->
                        ExpandTableRow("title", annotation_dict.title[k])]]

\* match_with_title as it would be if line 798 were missing: the titles
\* merged into the chart stay in the pool.
match_with_title_keeping(chart_bbox, title_bboxes, iou_th) ==
    IF Len(title_bboxes) = 0
    THEN [matched |-> FALSE, new_bbox |-> chart_bbox,
          title_bboxes |-> title_bboxes, matches |-> <<>>]
    ELSE LET n == Len(title_bboxes)
             dist_above == [k \in 1..n |-> Abs(title_bboxes[k][4] - chart_bbox[2])]
             dist_below == [k \in 1..n |-> Abs(chart_bbox[4] - title_bboxes[k][2])]
             dist_left == [k \in 1..n |-> Abs(title_bboxes[k][1] - chart_bbox[1])]
             above == [k \in 1..n |->
                          IouAbove(title_bboxes[k], chart_bbox, iou_th[1], iou_th[2])]
             dists == [k \in 1..n |-> Min(dist_above[k], dist_below[k]) + dist_left[k]]
             matches == IF \E k \in 1..n : above[k] THEN IndicesOf(above)
                        ELSE IF SeqMin(dists) < Scale \div 10 THEN <<ArgMin(dists)>>
                        ELSE <<>>
         IN  IF matches # <<>>
             THEN [matched |-> TRUE,
                   new_bbox |-> Envelope(chart_bbox,
                                    [k \in 1..Len(matches) |->
                                        <<0, 0, 0, 0>> \o title_bboxes[matches[k]]], 1),
                   title_bboxes |-> title_bboxes,
                   matches |-> matches]
             ELSE [matched |-> FALSE, new_bbox |-> chart_bbox,
                   title_bboxes |-> title_bboxes, matches |-> <<>>]

\* match_with_title as it would be if line 786 took the title of the
\* largest IoU only instead of every title above the threshold.
match_with_title_best_only(chart_bbox, title_bboxes, iou_th) ==
    IF Len(title_bboxes) = 0
    THEN [matched |-> FALSE, new_bbox |-> chart_bbox,
          title_bboxes |-> title_bboxes, matches |-> <<>>]
    ELSE LET n == Len(title_bboxes)
             dist_above == [k \in 1..n |-> Abs(title_bboxes[k][4] - chart_bbox[2])]
             dist_below == [k \in 1..n |-> Abs(chart_bbox[4] - title_bboxes[k][2])]
             dist_left == [k \in 1..n |-> Abs(title_bboxes[k][1] - chart_bbox[1])]
             above == [k \in 1..n |->
                          IouAbove(title_bboxes[k], chart_bbox, iou_th[1], iou_th[2])]
             dists == [k \in 1..n |-> Min(dist_above[k], dist_below[k]) + dist_left[k]]
             matches == IF \E k \in 1..n : above[k] THEN <<IndicesOf(above)[1]>>
                        ELSE IF SeqMin(dists) < Scale \div 10 THEN <<ArgMin(dists)>>
                        ELSE <<>>
         IN  IF matches # <<>>
             THEN [matched |-> TRUE,
                   new_bbox |-> Envelope(chart_bbox,
                                    [k \in 1..Len(matches) |->
                                        <<0, 0, 0, 0>> \o title_bboxes[matches[k]]], 1),
                   title_bboxes |-> Take(title_bboxes,
                                        IndicesOf([k \in 1..n |-> k \notin Range(matches)])),
                   matches |-> matches]
             ELSE [matched |-> FALSE, new_bbox |-> chart_bbox,
                   title_bboxes |-> title_bboxes, matches |-> <<>>]

\* match_with_title(chart_bbox, title_bboxes, iou_th): matched is FALSE for
\* the result None; matches are the indices of the titles merged into
\* new_bbox; title_bboxes is the pool left.  iou_th is <<num, den>>.
match_with_title(chart_bbox, title_bboxes, iou_th) ==
    IF Len(title_bboxes) = 0
    THEN [matched |-> FALSE, new_bbox |-> chart_bbox,
          title_bboxes |-> title_bboxes, matches |-> <<>>]
    ELSE LET n == Len(title_bboxes)
             dist_above == [k \in 1..n |-> Abs(title_bboxes[k][4] - chart_bbox[2])]
             dist_below == [k \in 1..n |-> Abs(chart_bbox[4] - title_bboxes[k][2])]
             dist_left == [k \in 1..n |-> Abs(title_bboxes[k][1] - chart_bbox[1])]
             above == [k \in 1..n |->
                          IouAbove(title_bboxes[k], chart_bbox, iou_th[1], iou_th[2])]
             dists == [k \in 1..n |-> Min(dist_above[k], dist_below[k]) + dist_left[k]]
             matches == IF \E k \in 1..n : above[k] THEN IndicesOf(above)
                        ELSE IF SeqMin(dists) < Scale \div 10 THEN <<ArgMin(dists)>>
                        ELSE <<>>
         IN  IF matches # <<>>
             THEN [matched |-> TRUE,
                   new_bbox |-> Envelope(chart_bbox,
                                    [k \in 1..Len(matches) |->
                                        <<0, 0, 0, 0>> \o title_bboxes[matches[k]]], 1),
                   title_bboxes |-> Take(title_bboxes,
                                        IndicesOf([k \in 1..n |-> k \notin Range(matches)])),
                   matches |-> matches]
             ELSE [matched |-> FALSE, new_bbox |-> chart_bbox,
                   title_bboxes |-> title_bboxes, matches |-> <<>>]

\* The concatenation of expand_chart_bboxes lines 444-456: the detections of
\* the labels in the order table, chart, title, each with its label index.
ConcatLabels(annotation_dict) ==
    [k \in 1..Len(annotation_dict.table) |-> <<TABLE, annotation_dict.table[k]>>]
    \o [k \in 1..Len(annotation_dict.chart) |-> <<CHART, annotation_dict.chart[k]>>]
    \o [k \in 1..Len(annotation_dict.title) |-> <<TITLE, annotation_dict.title[k]>>]

\* The fusion call of expand_chart_bboxes: bboxes[:, None] makes every box a
\* boxes_list entry of its own.
ChartFusion(annotation_dict) ==
    LET all == ConcatLabels(annotation_dict)
    IN  weighted_boxes_fusion([k \in 1..Len(all) |-> <<BoxOf(all[k][2])>>],
                              [k \in 1..Len(all) |-> <<all[k][2][5]>>],
                              [k \in 1..Len(all) |-> <<all[k][1]>>],
                              <<1, 100>>, 0, "max", "biggest", FALSE)

\* The state of expand_chart_bboxes when its loop starts (lines 467-471).
ChartLoopInit(fused) ==
    LET charts == IndicesOf([k \in 1..Len(fused.labels) |-> fused.labels[k] = CHART])
        titles == IndicesOf([k \in 1..Len(fused.labels) |-> fused.labels[k] = TITLE])
    IN  [i |-> 1,
         chart_bboxes |-> Take(fused.boxes, charts),
         chart_confidences |-> Take(fused.scores, charts),
         title_bboxes |-> Take(fused.boxes, titles),
         found_title_idxs |-> <<>>,
         no_found_title_idxs |-> <<>>]

\* One pass of "for i in range(len(chart_bboxes))" (lines 472-479).
ChartLoopStep(st) ==
    LET match == match_with_title(st.chart_bboxes[st.i], st.title_bboxes, <<1, 100>>)
    IN  IF match.matched
        THEN [st EXCEPT !.chart_bboxes[st.i] = match.new_bbox,
                        !.title_bboxes = match.title_bboxes,
                        !.found_title_idxs = Append(@, st.i),
                        !.i = @ + 1]
        ELSE [st EXCEPT !.no_found_title_idxs = Append(@, st.i),
                        !.i = @ + 1]

RECURSIVE ChartLoop(_)
ChartLoop(st) ==
    IF st.i > Len(st.chart_bboxes) THEN st ELSE ChartLoop(ChartLoopStep(st))

\* expand_chart_bboxes as it would be if it returned under 'title' only the
\* titles whose fused box is still in the pool after the loop.
ChartResultRemainingTitles(annotation_dict, st) ==
    LET expanded == [k \in 1..Len(st.chart_bboxes) |->
                        IF k \in Range(st.found_title_idxs)
                        THEN expand_box(st.chart_bboxes[k], 105, 110)
                        ELSE expand_box(st.chart_bboxes[k], 110, 125)]
        InPool(t) == BoxOf(t) \in Range(st.title_bboxes)
    IN  [table |-> annotation_dict.table,
         chart |-> [k \in 1..Len(expanded) |->
                       expanded[k] \o <<st.chart_confidences[k]>>],
         title |-> SelectSeq(annotation_dict.title, InPool)]

\* expand_chart_bboxes as it would be if line 481 expanded the charts with
\* a title by the ratios of line 482, those of the charts without.
ChartResultSymmetric(annotation_dict, st) ==
    LET expanded == [k \in 1..Len(st.chart_bboxes) |->
                        expand_box(st.chart_bboxes[k], 110, 125)]
    IN  [table |-> annotation_dict.table,
         chart |-> [k \in 1..Len(expanded) |->
                       expanded[k] \o <<st.chart_confidences[k]>>],
         title |-> annotation_dict.title]

\* Lines 481-489: expand the two groups of charts and build the result.
ChartResult(annotation_dict, st) ==
    LET expanded == [k \in 1..Len(st.chart_bboxes) |->
                        IF k \in Range(st.found_title_idxs)
                        THEN expand_box(st.chart_bboxes[k], 105, 110)
                        ELSE expand_box(st.chart_bboxes[k], 110, 125)]
    IN  [table |-> annotation_dict.table,
         chart |-> [k \in 1..Len(expanded) |->
                       expanded[k] \o <<st.chart_confidences[k]>>],
         title |-> annotation_dict.title]

\* expand_chart_bboxes(annotation_dict)
expand_chart_bboxes(annotation_dict) ==
    IF Len(annotation_dict.chart) = 0 THEN annotation_dict
    ELSE ChartResult(annotation_dict,
                     ChartLoop(ChartLoopInit(ChartFusion(annotation_dict))))

\* ------------------------------------------- detector output normalizer ---

YOLOX_NUM_CLASSES == 3

\* 0.01
YOLOX_CONF_THRESHOLD == Scale \div 100

\* 0.5, as the fraction <<1, 2>>
YOLOX_IOU_THRESHOLD == <<1, 2>>

\* 0.1
YOLOX_MIN_SCORE == Scale \div 10

\* 0.48
YOLOX_FINAL_SCORE == (48 * Scale) \div 100

YOLOX_IMAGE_PREPROC_HEIGHT == 1024

YOLOX_IMAGE_PREPROC_WIDTH == 1024

RECURSIVE GCD(_, _)
GCD(a, b) == IF b = 0 THEN a ELSE GCD(b, a % b)

\* A raw candidate is a row of the detector's tensor,
\* <<cx, cy, w, h, obj_conf, class score 0, 1, 2>>: the box in pixels of the
\* 1024 x 1024 input (w and h even), the confidences in hundredths.
\* Lines 271-276: centre form to corner form.
BoxCorner(cand) ==
    <<cand[1] - cand[3] \div 2, cand[2] - cand[4] \div 2,
      cand[1] + cand[3] \div 2, cand[2] + cand[4] \div 2>>

\* Lines 290-297: the row <<x1, y1, x2, y2, obj_conf, class_conf, class_pred>>.
\* torch.max(...) takes the first maximum; class_pred is 0-based.
DetectionRow(cand, num_classes) ==
    LET cls == [k \in 1..num_classes |-> cand[5 + k]]
        corner == BoxCorner(cand)
    IN  <<corner[1], corner[2], corner[3], corner[4], cand[5],
          SeqMax(cls), ArgMax(cls) - 1>>

\* obj_conf * class_conf of a detection row, in units (a product of two
\* hundredths is a number of 4-decimal steps).
RowScore(row) == Step4 * row[5] * row[6]

\* Whether torchvision's nms lets kept box a suppress box b: IoU > nms_thre
\* (never when the union is empty: the IoU is then no number).
NmsSuppresses(a, b, nms_thre) ==
    /\ UnionArea(BoxOf(a), BoxOf(b)) > 0
    /\ IouAbove(BoxOf(a), BoxOf(b), nms_thre[1], nms_thre[2])

\* torchvision.ops.nms / batched_nms over the rows taken in the given order
\* (by decreasing score): the indices kept, in that order.
RECURSIVE NmsFrom(_, _, _, _, _, _)
NmsFrom(rows, order, k, kept, nms_thre, class_agnostic) ==
    IF k > Len(order) THEN kept
    ELSE LET cur == rows[order[k]]
             suppressed == \E m \in 1..Len(kept) :
                               /\ class_agnostic \/ rows[kept[m]][7] = cur[7]
                               /\ NmsSuppresses(rows[kept[m]], cur, nms_thre)
         IN  NmsFrom(rows, order, k + 1,
                     IF suppressed THEN kept ELSE Append(kept, order[k]),
                     nms_thre, class_agnostic)

\* The body of the loop of postprocess_model_prediction for one image:
\* output[i], none standing for None.
PostprocessImagePrediction(image_pred, num_classes, conf_thre, nms_thre, class_agnostic) ==
    LET rows == [k \in 1..Len(image_pred) |-> DetectionRow(image_pred[k], num_classes)]
        detections == Take(rows, IndicesOf([k \in 1..Len(rows) |->
                                               RowScore(rows[k]) >= conf_thre]))
        n == Len(detections)
        order == SortDescRev([k \in 1..n |-> n + 1 - k],
                             [k \in 1..n |-> RowScore(detections[n + 1 - k])])
        nms_out_index == NmsFrom(detections, order, 1, <<>>, nms_thre, class_agnostic)
    IN  IF Len(image_pred) = 0 \/ n = 0 THEN [none |-> TRUE, detections |-> <<>>]
        ELSE [none |-> FALSE, detections |-> Take(detections, nms_out_index)]

\* postprocess_model_prediction(prediction, num_classes, conf_thre, nms_thre, class_agnostic)
postprocess_model_prediction(prediction, num_classes, conf_thre, nms_thre, class_agnostic) ==
    [i \in 1..Len(prediction) |->
        PostprocessImagePrediction(prediction[i], num_classes, conf_thre,
                                   nms_thre, class_agnostic)]

\* Whether lines 353-356 raise on this shape: an index past the tuple, or a
\* division by a zero dimension.
ShapeRaises(original_image_shape) ==
    \/ Len(original_image_shape) < 2
    \/ original_image_shape[1] = 0
    \/ original_image_shape[2] = 0

\* Lines 353-361 and 370 for one coordinate v (pixels): v / ratio / dim,
\* clipped to [0, 1] and rounded to 4 decimals; ratio is
\* min(WIDTH / shape[0], HEIGHT / shape[1]), kept as a fraction.
NormalizeCoord(v, original_image_shape, dim) ==
    LET byW == YOLOX_IMAGE_PREPROC_WIDTH * original_image_shape[2]
                   <= YOLOX_IMAGE_PREPROC_HEIGHT * original_image_shape[1]
        rn == IF byW THEN YOLOX_IMAGE_PREPROC_WIDTH ELSE YOLOX_IMAGE_PREPROC_HEIGHT
        rd == IF byW THEN original_image_shape[1] ELSE original_image_shape[2]
        g == GCD(10000, rn)
        steps == RoundHalfEven(v * rd * (10000 \div g), (rn \div g) * dim)
    IN  Clip(steps, 0, 10000) * Step4

\* Lines 357-370 for one row kept by the min_score filter.
NormalizeRow(row, original_image_shape) ==
    <<NormalizeCoord(row[1], original_image_shape, original_image_shape[2]),
      NormalizeCoord(row[2], original_image_shape, original_image_shape[1]),
      NormalizeCoord(row[3], original_image_shape, original_image_shape[2]),
      NormalizeCoord(row[4], original_image_shape, original_image_shape[1]),
      Round4(RowScore(row))>>

\* The body of the loop of postprocess_results for one image: raised when the
\* try block raises (line 366), otherwise the annotation dict appended to out.
PostprocessImageResult(original_image_shape, result, min_score) ==
    IF result.none THEN [raised |-> FALSE, annotation_dict |-> EmptyAnnotation]
    ELSE IF ShapeRaises(original_image_shape)
    THEN [raised |-> TRUE, annotation_dict |-> EmptyAnnotation]
    ELSE LET kept == Take(result.detections,
                          IndicesOf([k \in 1..Len(result.detections) |->
                                        RowScore(result.detections[k]) > min_score]))
             ofClass(c) == Take(kept, IndicesOf([k \in 1..Len(kept) |-> kept[k][7] = c]))
             rowsOf(c) == [k \in 1..Len(ofClass(c)) |->
                              NormalizeRow(ofClass(c)[k], original_image_shape)]
         IN  [raised |-> FALSE,
              annotation_dict |-> [table |-> rowsOf(TABLE), chart |-> rowsOf(CHART),
                                   title |-> rowsOf(TITLE)]]

\* postprocess_results with a failing image skipped instead of raised.
postprocess_results_skipping(results, original_image_shapes, min_score) ==
    LET n == Min(Len(original_image_shapes), Len(results))
        per == [i \in 1..n |->
                   PostprocessImageResult(original_image_shapes[i], results[i], min_score)]
    IN  [raised |-> FALSE, out |-> [i \in 1..n |-> per[i].annotation_dict]]

\* postprocess_results(results, original_image_shapes, min_score): the loop
\* runs over zip(original_image_shapes, results), which stops at the shorter;
\* a raise in any pass leaves the function, and out is lost.
postprocess_results(results, original_image_shapes, min_score) ==
    LET n == Min(Len(original_image_shapes), Len(results))
        per == [i \in 1..n |->
                   PostprocessImageResult(original_image_shapes[i], results[i], min_score)]
    IN  IF \E i \in 1..n : per[i].raised
        THEN [raised |-> TRUE, out |-> <<>>]
        ELSE [raised |-> FALSE, out |-> [i \in 1..n |-> per[i].annotation_dict]]

\* The final filter as it would be if lines 256 and 258 compared the other
\* way round and kept the entries at or below the threshold.
FinalFilterBelow(annotation_dict, final_thresh) ==
    LET Keep(bb) == bb[5] <= final_thresh
    IN  [table |-> SelectSeq(annotation_dict.table, Keep),
         chart |-> SelectSeq(annotation_dict.chart, Keep),
         title |-> annotation_dict.title]

\* Lines 253-261: the final threshold filter of one annotation dict.
FinalFilter(annotation_dict, final_thresh) ==
    LET Keep(bb) == bb[5] >= final_thresh
    IN  [table |-> SelectSeq(annotation_dict.table, Keep),
         chart |-> SelectSeq(annotation_dict.chart, Keep),
         title |-> annotation_dict.title]

\* process_inference_results(output, protocol, original_image_shapes=...,
\* final_thresh=...) with the other keyword arguments at their defaults:
\* raised, or the list returned.
process_inference_results(out, proto, shapes, thresh) ==
    LET post == IF proto = "http" THEN [raised |-> FALSE, out |-> out]
                ELSE postprocess_results(
                         postprocess_model_prediction(out, YOLOX_NUM_CLASSES,
                             YOLOX_CONF_THRESHOLD, YOLOX_IOU_THRESHOLD, TRUE),
                         shapes, YOLOX_MIN_SCORE)
    IN  [raised |-> post.raised,
         inference_results |->
             [k \in 1..Len(post.out) |->
                 FinalFilter(expand_chart_bboxes(expand_table_bboxes(post.out[k])),
                             thresh)]]

\* ------------------------------------------------------------------ state ---

VARIABLES
    \* process_inference_results(output, protocol, **kwargs)
    protocol, output, original_image_shapes, final_thresh,
    pc, results, annotation_dicts, inference_results,
    \* weighted_boxes_fusion: its arguments and the locals of its loops
    wbf_args, wbf_pc, filtered_boxes, label_n, j, clusters, overall_boxes,
    overall_members, fused, first_fused,
    \* expand_chart_bboxes: its argument, the locals of its loop, its result
    annotation_dict, chart_pc, chart_loop, fused_titles, consumed, chart_ret,
    \* expand_table_bboxes: its argument and its result
    table_arg, table_pc, table_ret,
    \* merge_labels: its arguments and its result
    ml_labels, ml_confs, ml_pc, ml_ret

pipeVars == <<protocol, output, original_image_shapes, final_thresh,
              pc, results, annotation_dicts, inference_results>>

wbfVars == <<wbf_args, wbf_pc, filtered_boxes, label_n, j, clusters,
             overall_boxes, overall_members, fused, first_fused>>

chartVars == <<annotation_dict, chart_pc, chart_loop, fused_titles, consumed,
               chart_ret>>

tableVars == <<table_arg, table_pc, table_ret>>

mlVars == <<ml_labels, ml_confs, ml_pc, ml_ret>>

vars == <<pipeVars, wbfVars, chartVars, tableVars, mlVars>>

\* All sequences over S of length at most n.
SeqsUpTo(S, n) == UNION {[1..m -> S] : m \in 0..n}

\* The value of a local that holds nothing yet.
Unset == <<>>

IdleArgs == [boxes_list |-> <<>>, scores_list |-> <<>>, labels_list |-> <<>>,
             iou_thr |-> <<1, 2>>, skip_box_thr |-> 0, conf_type |-> "avg",
             merge_type |-> "weighted", class_agnostic |-> FALSE]

EmptyFused == [boxes |-> <<>>, scores |-> <<>>, labels |-> <<>>, raised |-> FALSE]

EmptyLoop == ChartLoopInit(EmptyFused)

PipeIdle ==
    /\ protocol = "http" /\ output = <<>> /\ original_image_shapes = <<>>
    /\ final_thresh = YOLOX_FINAL_SCORE /\ pc = "idle"
    /\ results = Unset /\ annotation_dicts = Unset /\ inference_results = Unset

WbfIdle ==
    /\ wbf_args = IdleArgs /\ wbf_pc = "idle" /\ filtered_boxes = Unset
    /\ label_n = 0 /\ j = 0 /\ clusters = Unset /\ overall_boxes = Unset
    /\ overall_members = Unset /\ fused = EmptyFused /\ first_fused = <<>>

ChartIdle ==
    /\ annotation_dict = EmptyAnnotation /\ chart_pc = "idle"
    /\ chart_loop = EmptyLoop /\ fused_titles = Unset /\ consumed = Unset
    /\ chart_ret = EmptyAnnotation

TableIdle ==
    /\ table_arg = EmptyAnnotation /\ table_pc = "idle"
    /\ table_ret = EmptyAnnotation

MlIdle == ml_labels = <<>> /\ ml_confs = <<>> /\ ml_pc = "idle" /\ ml_ret = 0

\* --------------------------------------------- process_inference_results ---

\* The largest batch the model draws.
MaxBatch == 2

\* Raw candidates <<cx, cy, w, h, obj_conf, class scores>> of the 1024 x 1024
\* input: a table, a chart on the same place with a lower score (nms removes
\* it), a title, a title of height 0, a chart with a joint score between
\* conf_thresh and min_score, and a candidate below conf_thresh.
RawTable == <<512, 512, 200, 100, 90, 80, 10, 5>>

RawChartOnTable == <<514, 512, 200, 100, 80, 10, 70, 5>>

RawTitle == <<300, 200, 400, 40, 90, 0, 10, 90>>

RawFlatTitle == <<800, 800, 100, 0, 90, 0, 0, 90>>

RawWeakChart == <<200, 700, 100, 100, 20, 0, 30, 0>>

RawNoise == <<100, 100, 50, 50, 50, 1, 1, 1>>

\* The per-image raw results the model draws.
RawImages ==
    { <<>>, <<RawNoise>>, <<RawWeakChart>>, <<RawTable, RawChartOnTable>>,
      <<RawTitle, RawFlatTitle>> }

\* The original image shapes the model draws: image.shape of a square and of
\* a wide image, of an image with an empty dimension, of a 1-d array.
ImageShapes == { <<1024, 1024, 3>>, <<512, 1024, 3>>, <<0, 1024, 3>>, <<1024>> }

\* final_thresh: the default and 0.8
FinalThresholds == { YOLOX_FINAL_SCORE, (80 * Scale) \div 100 }

\* Already post-processed annotation dicts of the http path; the boxes lie in
\* [0, 1] with x1 <= x2 and y1 <= y2.
HttpTable == <<3000, 9000, 15000, 15000, 27000>>

HttpWeakTable == <<18000, 24000, 27000, 27600, 12000>>

HttpChart == <<6000, 6000, 18000, 12000, 27000>>

HttpWeakChart == <<21000, 21000, 27000, 27000, 9000>>

HttpTitle == <<6000, 12600, 18000, 14400, 24000>>

HttpFlatTitle == <<6000, 6000, 6000, 12000, 27000>>

HttpAnnotations ==
    { EmptyAnnotation,
      [table |-> <<HttpTable, HttpWeakTable>>, chart |-> <<>>, title |-> <<>>],
      [table |-> <<>>, chart |-> <<HttpChart, HttpWeakChart>>, title |-> <<HttpTitle>>],
      [table |-> <<HttpTable>>, chart |-> <<HttpChart>>, title |-> <<HttpTitle>>],
      [table |-> <<>>, chart |-> <<>>, title |-> <<HttpFlatTitle>>],
      [table |-> <<>>, chart |-> <<HttpWeakChart>>, title |-> <<HttpFlatTitle, HttpTitle>>] }

Init ==
    /\ \/ /\ protocol = "http"
          /\ output \in SeqsUpTo(HttpAnnotations, MaxBatch)
          /\ original_image_shapes = <<>>
       \/ /\ protocol = "grpc"
          /\ output \in SeqsUpTo(RawImages, MaxBatch)
          /\ original_image_shapes \in SeqsUpTo(ImageShapes, MaxBatch)
    /\ final_thresh \in FinalThresholds
    /\ pc = "call"
    /\ results = Unset /\ annotation_dicts = Unset /\ inference_results = Unset
    /\ WbfIdle /\ ChartIdle /\ TableIdle /\ MlIdle

\* Lines 237-244: the http output is taken as it is; the grpc output goes
\* through postprocess_model_prediction and postprocess_results, and a raise
\* of postprocess_results leaves process_inference_results.
Postprocess ==
    /\ pc = "call"
    /\ IF protocol = "http"
       THEN /\ results' = output
            /\ pc' = "postprocessed"
       ELSE LET pred == postprocess_model_prediction(output, YOLOX_NUM_CLASSES,
                            YOLOX_CONF_THRESHOLD, YOLOX_IOU_THRESHOLD, TRUE)
                post == postprocess_results(pred, original_image_shapes,
                                            YOLOX_MIN_SCORE)
            IN  IF post.raised
                THEN results' = results /\ pc' = "raised"
                ELSE results' = post.out /\ pc' = "postprocessed"
    /\ UNCHANGED <<protocol, output, original_image_shapes, final_thresh,
                   annotation_dicts, inference_results>>
    /\ UNCHANGED <<wbfVars, chartVars, tableVars, mlVars>>

\* Line 247
ExpandTables ==
    /\ pc = "postprocessed"
    /\ annotation_dicts' = [k \in 1..Len(results) |-> expand_table_bboxes(results[k])]
    /\ pc' = "tables"
    /\ UNCHANGED <<protocol, output, original_image_shapes, final_thresh,
                   results, inference_results>>
    /\ UNCHANGED <<wbfVars, chartVars, tableVars, mlVars>>

\* Line 248
ExpandCharts ==
    /\ pc = "tables"
    /\ annotation_dicts' = [k \in 1..Len(annotation_dicts) |->
                               expand_chart_bboxes(annotation_dicts[k])]
    /\ pc' = "charts"
    /\ UNCHANGED <<protocol, output, original_image_shapes, final_thresh,
                   results, inference_results>>
    /\ UNCHANGED <<wbfVars, chartVars, tableVars, mlVars>>

\* Lines 249-263
Return ==
    /\ pc = "charts"
    /\ inference_results' = [k \in 1..Len(annotation_dicts) |->
                                FinalFilter(annotation_dicts[k], final_thresh)]
    /\ pc' = "returned"
    /\ UNCHANGED <<protocol, output, original_image_shapes, final_thresh,
                   results, annotation_dicts>>
    /\ UNCHANGED <<wbfVars, chartVars, tableVars, mlVars>>

Next == Postprocess \/ ExpandTables \/ ExpandCharts \/ Return

Spec == Init /\ [][Next]_vars

\* The result of postprocess_model_prediction for the batch in hand.
Prediction ==
    postprocess_model_prediction(output, YOLOX_NUM_CLASSES, YOLOX_CONF_THRESHOLD,
                                 YOLOX_IOU_THRESHOLD, TRUE)

\* The images postprocess_results visits: zip stops at the shorter list.
Visited == 1..Min(Len(original_image_shapes), Len(output))

\* Image i is visited and its pass through the try block raises.
ImageFails(i) ==
    /\ i \in Visited
    /\ ~Prediction[i].none
    /\ ShapeRaises(original_image_shapes[i])

\* No candidate of image i survives the conf_thresh filter, nms and the
\* min_score filter.
NoSurvivor(i) ==
    \A k \in 1..Len(Prediction[i].detections) :
        RowScore(Prediction[i].detections[k]) <= YOLOX_MIN_SCORE

\* A detection whose box is in [0, 1], ordered, and of non-zero area.
ValidBox(d) ==
    /\ 0 <= d[1] /\ d[1] <= d[3] /\ d[3] <= Scale
    /\ 0 <= d[2] /\ d[2] <= d[4] /\ d[4] <= Scale
    /\ Area(BoxOf(d)) # 0

\* C1 (as claimed): every box of every list of every annotation set returned
\* by process_inference_results lies in [0, 1], has x1 <= x2 and y1 <= y2, and
\* has non-zero area.  Violated: the title list (and a table list) is passed
\* through, zero-area boxes included.
C1_BoxValidity ==
    pc = "returned" =>
        \A k \in 1..Len(inference_results) :
            /\ \A m \in 1..Len(inference_results[k].table) :
                   ValidBox(inference_results[k].table[m])
            /\ \A m \in 1..Len(inference_results[k].chart) :
                   ValidBox(inference_results[k].chart[m])
            /\ \A m \in 1..Len(inference_results[k].title) :
                   ValidBox(inference_results[k].title[m])

\* C6 (as claimed): process_inference_results returns one annotation dict per
\* prediction of the batch, the i-th computed from the i-th prediction and
\* the i-th original image shape alone.  Violated on the grpc path: the
\* predictions are zipped with original_image_shapes, which may be shorter.
C6_OrderPreservation ==
    pc = "returned" =>
        /\ Len(inference_results) = Len(output)
        /\ \A i \in 1..Len(output) :
               inference_results[i] =
                   process_inference_results(
                       <<output[i]>>,
                       protocol,
                       IF protocol = "grpc" THEN <<original_image_shapes[i]>> ELSE <<>>,
                       final_thresh).inference_results[1]

\* C7 (as claimed): when the postprocessing of one visited image fails, the
\* batch is not aborted and the annotation sets of the other visited images
\* are produced.  Violated: postprocess_results raises.
C7_ErrorIsolation ==
    (/\ protocol = "grpc" /\ pc # "call"
     /\ \E i \in Visited : ImageFails(i)
     /\ \E i \in Visited : ~ImageFails(i)) =>
        /\ pc # "raised"
        /\ Len(results) >= Cardinality({i \in Visited : ~ImageFails(i)})

\* C7 (amended): on the grpc path the call raises exactly when the
\* postprocessing of some visited image fails, and then the whole batch is
\* aborted: the call ends there and no annotation set is produced for any
\* image of the batch.
C7_BatchAborted ==
    (protocol = "grpc" /\ pc # "call") =>
        /\ (pc = "raised") <=> (\E i \in Visited : ImageFails(i))
        /\ pc = "raised" =>
               /\ results = Unset /\ annotation_dicts = Unset
               /\ inference_results = Unset
               /\ ~ENABLED Next

\* C7 witness: a batch of two is aborted although only its second image fails
\* and its first has detections above min_score.
C7_Witness ==
    /\ pc = "raised" /\ Len(output) = 2 /\ Len(original_image_shapes) = 2
    /\ ImageFails(2) /\ ~ImageFails(1) /\ ~NoSurvivor(1)

\* C8 (as claimed): on the grpc path every image of the batch without a
\* survivor has, in the list returned, an annotation dict with the three
\* keys, each an empty list.  Violated: with original_image_shapes shorter
\* than the batch (the zip of C6) the image has no annotation dict at all.
C8_EmptyResult ==
    (protocol = "grpc" /\ pc = "returned") =>
        \A i \in 1..Len(output) :
            NoSurvivor(i) =>
                /\ i <= Len(inference_results)
                /\ inference_results[i] = EmptyAnnotation

\* ------------------------------------------------------------ merge_labels ---

\* The largest number of members of a cluster the model draws.
MaxMembers == 3

\* The confidences of the members: 0.5, 0.8 and 0.9.
MemberConfs == {Scale \div 2, (8 * Scale) \div 10, (9 * Scale) \div 10}

InitMerge ==
    /\ \E n \in 1..MaxMembers :
           /\ ml_labels \in [1..n -> {TABLE, CHART, TITLE}]
           /\ ml_confs \in [1..n -> MemberConfs]
    /\ ml_pc = "call" /\ ml_ret = 0
    /\ PipeIdle /\ WbfIdle /\ ChartIdle /\ TableIdle

\* Lines 765-770.  The index of line 770 is out of range when the argmax of
\* the filtered confs is beyond the filtered labels: IndexError.
MergeLabels ==
    /\ ml_pc = "call"
    /\ LET ret == merge_labels(ml_labels, ml_confs)
       IN  IF ret = LabelError
           THEN ml_pc' = "raised" /\ ml_ret' = ml_ret
           ELSE ml_pc' = "returned" /\ ml_ret' = ret
    /\ UNCHANGED <<ml_labels, ml_confs>>
    /\ UNCHANGED <<pipeVars, wbfVars, chartVars, tableVars>>

NextMerge == MergeLabels

SpecMerge == InitMerge /\ [][NextMerge]_vars

\* The members of the cluster in hand whose label is not Title.
NonTitle == {k \in 1..Len(ml_labels) : ml_labels[k] # TITLE}

\* The labels of the non-Title members of the highest confidence among them.
BestNonTitleLabels ==
    {ml_labels[k] : k \in {m \in NonTitle :
                              \A n \in NonTitle : ml_confs[n] <= ml_confs[m]}}

\* C3 (as claimed): merge_labels returns the common label when all members
\* share one; otherwise, when some member is not a Title, it returns without
\* an error the label of the highest-confidence member among those that are
\* not Titles, whatever the order of the members.  Violated: the filter of
\* the confidences keeps the Titles' confidences.
C3_MergedLabel ==
    ml_pc # "call" =>
        IF Cardinality(Range(ml_labels)) = 1
        THEN ml_pc = "returned" /\ ml_ret = ml_labels[1]
        ELSE NonTitle # {} =>
                 ml_pc = "returned" /\ ml_ret \in BestNonTitleLabels

\* ----------------------------------------------------- expand_table_bboxes ---

\* The largest number of table detections the model draws.
MaxTables == 2

\* Table detections: [0.1, 0.3, 0.5, 0.5, 0.9] of spec section 8; one off the
\* 4-decimal grid whose expanded top falls below 0; one of height 0.0001; one
\* below the page (y1 > 1).
TableDets ==
    { <<3000, 9000, 15000, 15000, 27000>>,
      <<3001, 1000, 15002, 9001, 26999>>,
      <<6000, 15000, 12000, 15003, 24000>>,
      <<0, 31500, 3000, 31500, 15000>> }

\* A chart and a title off the 4-decimal grid.
OffGridChart == <<6001, 6002, 18000, 12000, 27000>>

OffGridTitle == <<6000, 12600, 18001, 14400, 24000>>

InitTable ==
    /\ table_arg \in [table : SeqsUpTo(TableDets, MaxTables),
                      chart : SeqsUpTo({OffGridChart}, 1),
                      title : SeqsUpTo({OffGridTitle}, 1)]
    /\ table_pc = "call" /\ table_ret = EmptyAnnotation
    /\ PipeIdle /\ WbfIdle /\ ChartIdle /\ MlIdle

\* Lines 410-411: the early return of a dict without tables.
TableNoop ==
    /\ table_pc = "call"
    /\ Len(table_arg.table) = 0
    /\ table_ret' = table_arg
    /\ table_pc' = "returned"
    /\ UNCHANGED table_arg
    /\ UNCHANGED <<pipeVars, wbfVars, chartVars, mlVars>>

\* Lines 413-425
TableExpand ==
    /\ table_pc = "call"
    /\ Len(table_arg.table) # 0
    /\ table_ret' = expand_table_bboxes(table_arg)
    /\ table_pc' = "returned"
    /\ UNCHANGED table_arg
    /\ UNCHANGED <<pipeVars, wbfVars, chartVars, mlVars>>

NextTable == TableNoop \/ TableExpand

SpecTable == InitTable /\ [][NextTable]_vars

\* out is a value of the 4-decimal grid nearest to the value n / d.
NearestOnGrid(out, n, d) ==
    /\ out % Step4 = 0
    /\ 2 * Abs(d * out - n) <= d * Step4

\* The row returned is the row given, each component rounded to 4 decimals.
RoundedRow(out, in) ==
    /\ Len(out) = 5
    /\ \A c \in 1..5 : NearestOnGrid(out[c], in[c], 1)

\* The table row returned has the top edge y1 - 0.2 * (y2 - y1), clipped to
\* [0, 1] and rounded to 4 decimals; the other components are the ones given,
\* rounded to 4 decimals.
ExpandedRow(out, in) ==
    /\ Len(out) = 5
    /\ \A c \in {1, 3, 4, 5} : NearestOnGrid(out[c], in[c], 1)
    /\ NearestOnGrid(out[2], Clip(5 * in[2] - (in[4] - in[2]), 0, 5 * Scale), 5)

\* C10 (as claimed): expand_table_bboxes returns for each table
\* [x1, y1, x2, y2, c] exactly [x1, max(0, y1 - 0.2 * (y2 - y1)), x2, y2, c],
\* and the charts and titles unchanged.  Violated: line 423 rounds every
\* component of every row to 4 decimals, and line 421 also clips at 1.
C10_TableExpansion ==
    table_pc = "returned" =>
        /\ Len(table_ret.table) = Len(table_arg.table)
        /\ \A k \in 1..Len(table_arg.table) :
               /\ 5 * table_ret.table[k][2] =
                      Max(0, 5 * table_arg.table[k][2]
                             - (table_arg.table[k][4] - table_arg.table[k][2]))
               /\ \A c \in {1, 3, 4, 5} :
                      table_ret.table[k][c] = table_arg.table[k][c]
        /\ table_ret.chart = table_arg.chart
        /\ table_ret.title = table_arg.title

\* C10 (amended): a dict without tables is returned unchanged; otherwise the
\* lists keep their lengths and orders, every table row has its top edge
\* moved to y1 - 0.2 * (y2 - y1), clipped to [0, 1], and every component of
\* every row of the three lists is rounded to 4 decimals.
C10_RoundedTableExpansion ==
    table_pc = "returned" =>
        IF Len(table_arg.table) = 0 THEN table_ret = table_arg
        ELSE /\ Len(table_ret.table) = Len(table_arg.table)
             /\ Len(table_ret.chart) = Len(table_arg.chart)
             /\ Len(table_ret.title) = Len(table_arg.title)
             /\ \A k \in 1..Len(table_arg.table) :
                    ExpandedRow(table_ret.table[k], table_arg.table[k])
             /\ \A k \in 1..Len(table_arg.chart) :
                    RoundedRow(table_ret.chart[k], table_arg.chart[k])
             /\ \A k \in 1..Len(table_arg.title) :
                    RoundedRow(table_ret.title[k], table_arg.title[k])

\* C10 witness: two tables were expanded, the top of the first moved, and the
\* chart given came back rounded.
C10_Witness ==
    /\ table_pc = "returned" /\ Len(table_arg.table) = 2
    /\ table_ret.table[1][2] < table_arg.table[1][2]
    /\ Len(table_arg.chart) = 1 /\ table_ret.chart # table_arg.chart

\* ----------------------------------------------------- expand_chart_bboxes ---

\* The largest numbers of chart and of title detections the model draws.
MaxCharts == 2

MaxTitles == 2

\* Charts: [0.2, 0.2, 0.6, 0.4] of confidence 0.9; [0.2, 0.5, 0.6, 0.7] of
\* confidence 0.8 below it; [0.5, 0.3, 0.9, 0.6] of confidence 0.5, which
\* overlaps both; [0.8, 0.8, 1, 1] of confidence 0.7, in the corner of the
\* page; [0.1, 0.8, 0.1, 0.9] of confidence 0.9, of zero area.
ChartDets ==
    { <<6000, 6000, 18000, 12000, 27000>>,
      <<6000, 15000, 18000, 21000, 24000>>,
      <<15000, 9000, 27000, 18000, 15000>>,
      <<24000, 24000, 30000, 30000, 21000>>,
      <<3000, 24000, 3000, 27000, 27000>> }

\* Titles: one between the first two charts, within 0.1 of both and
\* overlapping neither; one inside the top of the first chart; one far from
\* every chart; one inside the bottom of the first chart.
TitleDets ==
    { <<6000, 12600, 18000, 14400, 24000>>,
      <<6000, 6000, 18000, 7800, 21000>>,
      <<21000, 1500, 27000, 3000, 18000>>,
      <<6000, 10200, 18000, 11400, 15000>> }

InitChart ==
    /\ annotation_dict \in [table : SeqsUpTo({HttpTable}, 1),
                            chart : SeqsUpTo(ChartDets, MaxCharts),
                            title : SeqsUpTo(TitleDets, MaxTitles)]
    /\ chart_pc = "call" /\ chart_loop = EmptyLoop
    /\ fused_titles = Unset /\ consumed = Unset
    /\ chart_ret = EmptyAnnotation
    /\ PipeIdle /\ WbfIdle /\ TableIdle /\ MlIdle

\* Lines 441-442: the early return of a dict without charts.
ChartNoop ==
    /\ chart_pc = "call"
    /\ Len(annotation_dict.chart) = 0
    /\ chart_ret' = annotation_dict
    /\ chart_pc' = "returned"
    /\ UNCHANGED <<annotation_dict, chart_loop, fused_titles, consumed>>
    /\ UNCHANGED <<pipeVars, wbfVars, tableVars, mlVars>>

\* Lines 444-471: the fusion and the split of its result.  fused_titles
\* keeps the title boxes the fusion returned; consumed will list the title
\* boxes merged into charts, each with the index of its chart.
ChartFuse ==
    /\ chart_pc = "call"
    /\ Len(annotation_dict.chart) # 0
    /\ chart_loop' = ChartLoopInit(ChartFusion(annotation_dict))
    /\ fused_titles' = chart_loop'.title_bboxes
    /\ consumed' = <<>>
    /\ chart_pc' = "loop"
    /\ UNCHANGED <<annotation_dict, chart_ret>>
    /\ UNCHANGED <<pipeVars, wbfVars, tableVars, mlVars>>

\* Lines 472-479: one pass of the loop over the fused charts.
ChartMatch ==
    /\ chart_pc = "loop"
    /\ chart_loop.i <= Len(chart_loop.chart_bboxes)
    /\ chart_loop' = ChartLoopStep(chart_loop)
    /\ LET match == match_with_title(chart_loop.chart_bboxes[chart_loop.i],
                                     chart_loop.title_bboxes, <<1, 100>>)
       IN  consumed' = consumed \o
               [k \in 1..Len(match.matches) |->
                   <<chart_loop.title_bboxes[match.matches[k]], chart_loop.i>>]
    /\ UNCHANGED <<annotation_dict, chart_pc, fused_titles, chart_ret>>
    /\ UNCHANGED <<pipeVars, wbfVars, tableVars, mlVars>>

\* Lines 481-489: after the loop, expand the charts and return.
ChartExpand ==
    /\ chart_pc = "loop"
    /\ chart_loop.i > Len(chart_loop.chart_bboxes)
    /\ chart_ret' = ChartResult(annotation_dict, chart_loop)
    /\ chart_pc' = "returned"
    /\ UNCHANGED <<annotation_dict, chart_loop, fused_titles, consumed>>
    /\ UNCHANGED <<pipeVars, wbfVars, tableVars, mlVars>>

NextChart == ChartNoop \/ ChartFuse \/ ChartMatch \/ ChartExpand

SpecChart == InitChart /\ [][NextChart]_vars

\* C4: whatever expand_chart_bboxes is given, with or without charts and
\* with or without matched titles, the 'title' list it returns is the one it
\* was given (same length, entries and order) and so is the 'table' list.
C4_TitleTablePassThrough ==
    chart_pc = "returned" =>
        /\ chart_ret.title = annotation_dict.title
        /\ chart_ret.table = annotation_dict.table

\* C4 witness: a call with a table and two titles returned after a title was
\* merged into a chart.
C4_Witness ==
    /\ chart_pc = "returned" /\ Len(annotation_dict.chart) > 0
    /\ Len(annotation_dict.title) = 2 /\ Len(annotation_dict.table) = 1
    /\ Len(consumed) > 0

\* How many entries of the sequence s are x.
CountIn(s, x) == Cardinality({k \in 1..Len(s) : s[k] = x})

\* C9: the fused charts are taken in descending order of confidence; every
\* title box the fusion returned is either still in the pool or was merged
\* into exactly one chart, never both and never twice; a title merged into
\* chart i was merged at pass i and lies inside that chart's box; so a later
\* chart never receives a title an earlier chart took.
C9_TitleConsumedOnce ==
    chart_pc # "call" =>
        /\ \A k \in 1..(Len(chart_loop.chart_confidences) - 1) :
               chart_loop.chart_confidences[k] >= chart_loop.chart_confidences[k + 1]
        /\ \A t \in Range(fused_titles) :
               /\ CountIn(fused_titles, t) = 1
               /\ CountIn([k \in 1..Len(consumed) |-> consumed[k][1]], t)
                      + CountIn(chart_loop.title_bboxes, t) = 1
        /\ \A k \in 1..Len(consumed) :
               /\ consumed[k][1] \in Range(fused_titles)
               /\ consumed[k][2] < chart_loop.i
               /\ consumed[k][2] \in Range(chart_loop.found_title_idxs)
               /\ merge_boxes(chart_loop.chart_bboxes[consumed[k][2]], consumed[k][1])
                      = chart_loop.chart_bboxes[consumed[k][2]]

\* C9 witness: two charts both qualified for the one title; the first, of
\* the higher confidence, received it and the second was left without.
C9_Witness ==
    /\ chart_pc = "loop" /\ Len(chart_loop.chart_bboxes) = 2 /\ chart_loop.i = 3
    /\ Len(fused_titles) = 1
    /\ chart_loop.chart_confidences[1] > chart_loop.chart_confidences[2]
    /\ consumed = <<<<fused_titles[1], 1>>>>
    /\ chart_loop.no_found_title_idxs = <<2>>
    /\ match_with_title(chart_loop.chart_bboxes[2], fused_titles, <<1, 100>>).matched

\* --------------------------------------------------- weighted_boxes_fusion ---

\* The largest number of boxes a fusion call is given.
MaxBoxes == 3

\* Detections <<x1, y1, x2, y2, score, label>> given to the fusion: two
\* charts in the shape of an L, [0, 0, 0.4, 0.1] and [0, 0, 0.1, 0.4], whose
\* IoU is 1/7, the second given with its corners swapped and one of them
\* left of the page, as [0.1, 0.4, -0.02, 0]; a chart [0.2, 0.2, 0.4, 0.4]
\* inside their envelope that touches neither; a chart
\* [0.39, 0.39, 0.6, 0.6] whose IoU with that envelope is below 0.01; a
\* title over the top of the L.
WbfDets ==
    { <<0, 0, 12000, 3000, 27000, CHART>>,
      <<3000, 12000, 0 - 600, 0, 24000, CHART>>,
      <<6000, 6000, 12000, 12000, 18000, CHART>>,
      <<11700, 11700, 18000, 18000, 15000, CHART>>,
      <<0, 0, 12000, 1500, 25200, TITLE>> }

\* The arguments of a call that gives every detection in a list of its own
\* (bboxes[:, None] of expand_chart_bboxes) or all of them in one list.
WbfInputs(dets, split) ==
    IF split
    THEN [boxes_list |-> [k \in 1..Len(dets) |-> <<BoxOf(dets[k])>>],
          scores_list |-> [k \in 1..Len(dets) |-> <<dets[k][5]>>],
          labels_list |-> [k \in 1..Len(dets) |-> <<dets[k][6]>>]]
    ELSE [boxes_list |-> <<[k \in 1..Len(dets) |-> BoxOf(dets[k])]>>,
          scores_list |-> <<[k \in 1..Len(dets) |-> dets[k][5]]>>,
          labels_list |-> <<[k \in 1..Len(dets) |-> dets[k][6]]>>]

WbfLocalsUnset ==
    /\ filtered_boxes = Unset /\ label_n = 0 /\ j = 0 /\ clusters = Unset
    /\ overall_boxes = Unset /\ overall_members = Unset /\ fused = EmptyFused

InitWbf ==
    /\ \E dets \in SeqsUpTo(WbfDets, MaxBoxes), split \in BOOLEAN :
           \E iou_thr \in {<<1, 100>>, <<1, 2>>}, conf_type \in {"avg", "max"},
              merge_type \in {"weighted", "biggest"}, class_agnostic \in BOOLEAN :
               wbf_args = [boxes_list |-> WbfInputs(dets, split).boxes_list,
                           scores_list |-> WbfInputs(dets, split).scores_list,
                           labels_list |-> WbfInputs(dets, split).labels_list,
                           iou_thr |-> iou_thr, skip_box_thr |-> 0,
                           conf_type |-> conf_type, merge_type |-> merge_type,
                           class_agnostic |-> class_agnostic]
    /\ wbf_pc = "call" /\ WbfLocalsUnset /\ first_fused = <<>>
    /\ PipeIdle /\ ChartIdle /\ TableIdle /\ MlIdle

\* Lines 528-537: prefilter_boxes, and the early return of an empty result.
WbfPrefilter ==
    /\ wbf_pc = "call"
    /\ filtered_boxes' = prefilter_boxes(wbf_args.boxes_list, wbf_args.scores_list,
                             wbf_args.labels_list, wbf_args.skip_box_thr,
                             wbf_args.class_agnostic)
    /\ IF Len(filtered_boxes') = 0
       THEN /\ wbf_pc' = "returned" /\ fused' = EmptyFused
            /\ UNCHANGED <<label_n, j, clusters, overall_boxes, overall_members>>
       ELSE /\ wbf_pc' = "cluster" /\ label_n' = 1 /\ j' = 1 /\ clusters' = <<>>
            /\ overall_boxes' = <<>> /\ overall_members' = <<>>
            /\ UNCHANGED fused
    /\ UNCHANGED <<wbf_args, first_fused>>
    /\ UNCHANGED <<pipeVars, chartVars, tableVars, mlVars>>

\* Lines 547-561: one pass of "for j in range(len(boxes))" for the bucket
\* in hand.
WbfCluster ==
    /\ wbf_pc = "cluster"
    /\ j <= Len(filtered_boxes[label_n].boxes)
    /\ clusters' = ClusterStep(filtered_boxes[label_n].boxes, clusters, j,
                               wbf_args.iou_thr)
    /\ j' = j + 1
    /\ UNCHANGED <<wbf_args, wbf_pc, filtered_boxes, label_n, overall_boxes,
                   overall_members, fused, first_fused>>
    /\ UNCHANGED <<pipeVars, chartVars, tableVars, mlVars>>

\* Lines 563-573: the clusters of the bucket in hand are merged and appended
\* to overall_boxes; overall_members keeps the rows each merged row came
\* from.  An IndexError of merge_labels leaves weighted_boxes_fusion.
WbfMerge ==
    /\ wbf_pc = "cluster"
    /\ j > Len(filtered_boxes[label_n].boxes)
    /\ LET boxes == filtered_boxes[label_n].boxes
           merged == MergeBucket(boxes, clusters, wbf_args.conf_type,
                                 wbf_args.merge_type, Len(wbf_args.boxes_list))
       IN  IF \E k \in 1..Len(merged) : merged[k][1] = LabelError
           THEN /\ wbf_pc' = "raised"
                /\ UNCHANGED <<label_n, j, clusters, overall_boxes, overall_members>>
           ELSE /\ overall_boxes' = overall_boxes \o merged
                /\ overall_members' = overall_members \o
                       [k \in 1..Len(clusters) |-> Take(boxes, clusters[k])]
                /\ IF label_n < Len(filtered_boxes)
                   THEN /\ label_n' = label_n + 1 /\ j' = 1 /\ clusters' = <<>>
                        /\ UNCHANGED wbf_pc
                   ELSE /\ wbf_pc' = "sort"
                        /\ UNCHANGED <<label_n, j, clusters>>
    /\ UNCHANGED <<wbf_args, filtered_boxes, fused, first_fused>>
    /\ UNCHANGED <<pipeVars, chartVars, tableVars, mlVars>>

\* Lines 575-580: the sort by score and the return.
WbfReturn ==
    /\ wbf_pc = "sort"
    /\ fused' = Reassemble(overall_boxes)
    /\ wbf_pc' = "returned"
    /\ UNCHANGED <<wbf_args, filtered_boxes, label_n, j, clusters, overall_boxes,
                   overall_members, first_fused>>
    /\ UNCHANGED <<pipeVars, chartVars, tableVars, mlVars>>

NextWbf == WbfPrefilter \/ WbfCluster \/ WbfMerge \/ WbfReturn

SpecWbf == InitWbf /\ [][NextWbf]_vars

\* C2 (as claimed): the score of every merged row is the maximum of its
\* members' scores under conf_type = 'max' and their arithmetic mean under
\* conf_type = 'avg', whatever merge_type is and however many entries
\* boxes_list has.  Violated under 'avg': line 572 multiplies the mean by
\* len(c) / len(boxes_list).
C2_MergedConfidence ==
    wbf_pc \in {"cluster", "sort", "returned"} =>
        \A k \in 1..Len(overall_boxes) :
            LET confs == [m \in 1..Len(overall_members[k]) |-> overall_members[k][m][2]]
            IN  IF wbf_args.conf_type = "max"
                THEN overall_boxes[k][2] = SeqMax(confs)
                ELSE Len(confs) * overall_boxes[k][2] = SeqSum(confs)

\* ------------------------------------- weighted_boxes_fusion, applied twice ---

\* The fusion of expand_chart_bboxes (iou_thr = 0.01, merge_type = 'biggest',
\* conf_type = 'max', class_agnostic = False, every box in a list of its own)
\* applied to detections, and then again to its own result.
FuseArgs(boxes, scores, labels) ==
    [boxes_list |-> [k \in 1..Len(boxes) |-> <<boxes[k]>>],
     scores_list |-> [k \in 1..Len(scores) |-> <<scores[k]>>],
     labels_list |-> [k \in 1..Len(labels) |-> <<labels[k]>>],
     iou_thr |-> <<1, 100>>, skip_box_thr |-> 0, conf_type |-> "max",
     merge_type |-> "biggest", class_agnostic |-> FALSE]

InitFuse ==
    /\ \E dets \in SeqsUpTo(WbfDets, MaxBoxes) :
           wbf_args = FuseArgs([k \in 1..Len(dets) |-> BoxOf(dets[k])],
                               [k \in 1..Len(dets) |-> dets[k][5]],
                               [k \in 1..Len(dets) |-> dets[k][6]])
    /\ wbf_pc = "call" /\ WbfLocalsUnset /\ first_fused = <<>>
    /\ PipeIdle /\ ChartIdle /\ TableIdle /\ MlIdle

\* The second call: the result F of the first is kept in first_fused and
\* given to weighted_boxes_fusion with the same parameters.
Refeed ==
    /\ wbf_pc = "returned"
    /\ first_fused = <<>>
    /\ first_fused' = <<fused>>
    /\ wbf_args' = FuseArgs(fused.boxes, fused.scores, fused.labels)
    /\ wbf_pc' = "call"
    /\ filtered_boxes' = Unset /\ label_n' = 0 /\ j' = 0 /\ clusters' = Unset
    /\ overall_boxes' = Unset /\ overall_members' = Unset /\ fused' = EmptyFused
    /\ UNCHANGED <<pipeVars, chartVars, tableVars, mlVars>>

NextFuse == WbfPrefilter \/ WbfCluster \/ WbfMerge \/ WbfReturn \/ Refeed

SpecFuse == InitFuse /\ [][NextFuse]_vars

\* The detections of a fusion result, each <<box, label>>, as a sequence.
BoxesAndLabels(f) == [k \in 1..Len(f.boxes) |-> <<f.boxes[k], f.labels[k]>>]

\* The detections of a fusion result, each <<box, label, score>>.
Detections(f) ==
    [k \in 1..Len(f.boxes) |-> <<f.boxes[k], f.labels[k], f.scores[k]>>]

\* Two sequences hold the same entries the same number of times.
SameBag(s, t) ==
    /\ Len(s) = Len(t)
    /\ \A x \in Range(s) \cup Range(t) :
           Cardinality({k \in 1..Len(s) : s[k] = x})
               = Cardinality({k \in 1..Len(t) : t[k] = x})

\* No two boxes of the fusion result f with the same label have an IoU
\* above 0.01.
NoOverlapLeft(f) ==
    \A a, b \in 1..Len(f.boxes) :
        (a # b /\ f.labels[a] = f.labels[b]) =>
            ~IouAbove(f.boxes[a], f.boxes[b], 1, 100)

\* C5 (as claimed): for any input, the second fusion returns the boxes of
\* the first with their labels, as many and with the same coordinates.
\* Violated: the envelope of a cluster may overlap a box that overlapped no
\* member of the cluster, and the second fusion merges the two.
C5_FusionIdempotence ==
    (wbf_pc = "returned" /\ first_fused # <<>>) =>
        SameBag(BoxesAndLabels(fused), BoxesAndLabels(first_fused[1]))

\* C5 (amended): when no two boxes of F with the same label have an IoU
\* above 0.01, the second fusion returns the boxes of F with their labels
\* and their confidences, as many and with the same coordinates.
C5_IdempotentWithoutOverlap ==
    (wbf_pc = "returned" /\ first_fused # <<>> /\ NoOverlapLeft(first_fused[1])) =>
        SameBag(Detections(fused), Detections(first_fused[1]))

\* C5 witness: the first fusion merged two of three boxes, its result had
\* two boxes that overlap with an IoU of at most 0.01, and the second fusion
\* has returned.
C5_Witness ==
    /\ wbf_pc = "returned" /\ first_fused # <<>>
    /\ Len(first_fused[1].boxes) = 2 /\ Len(fused.boxes) = 2
    /\ NoOverlapLeft(first_fused[1])
    /\ first_fused[1].labels = <<CHART, CHART>>
    /\ InterArea(first_fused[1].boxes[1], first_fused[1].boxes[2]) > 0

\* ----------------------------------------------------- threshold monotonicity ---

\* s is an order-preserving sub-sequence of t.
RECURSIVE IsSubSeq(_, _)
IsSubSeq(s, t) ==
    IF s = <<>> THEN TRUE
    ELSE IF t = <<>> THEN FALSE
    ELSE IF Head(s) = Head(t) THEN IsSubSeq(Tail(s), Tail(t))
    ELSE IsSubSeq(s, Tail(t))

\* What process_inference_results returns for the batch in hand when it is
\* called with final_thresh = t.
ReturnedWith(t) ==
    process_inference_results(output, protocol, original_image_shapes, t).inference_results

\* C11: for the batch in hand and every threshold t2 >= final_thresh, the
\* 'table' and 'chart' lists returned with t2 are order-preserving
\* sub-sequences of those returned with final_thresh, so that their counts
\* do not grow, and the 'title' lists are the same.
C11_ThresholdMonotonicity ==
    pc = "returned" =>
        \A t2 \in {t \in FinalThresholds : t >= final_thresh} :
            LET with_t2 == ReturnedWith(t2)
            IN  /\ Len(with_t2) = Len(inference_results)
                /\ \A k \in 1..Len(inference_results) :
                       /\ IsSubSeq(with_t2[k].table, inference_results[k].table)
                       /\ IsSubSeq(with_t2[k].chart, inference_results[k].chart)
                       /\ Len(with_t2[k].table) <= Len(inference_results[k].table)
                       /\ Len(with_t2[k].chart) <= Len(inference_results[k].chart)
                       /\ with_t2[k].title = inference_results[k].title

\* C11 witness: a call with the default threshold returned a table for one
\* image and a title for another; with the threshold 0.8 the table is
\* filtered out.
C11_Witness ==
    /\ pc = "returned" /\ final_thresh = YOLOX_FINAL_SCORE
    /\ \E k \in 1..Len(inference_results) :
           Len(ReturnedWith((80 * Scale) \div 100)[k].table)
               < Len(inference_results[k].table)
    /\ \E k \in 1..Len(inference_results) : Len(inference_results[k].title) > 0

\* ------------------------------------------------------------ envelope merge ---

\* The concatenation of the sequences of a sequence, in order.
RECURSIVE Flatten(_)
Flatten(ss) == IF ss = <<>> THEN <<>> ELSE Head(ss) \o Flatten(Tail(ss))

\* The component-wise envelope of the boxes of the rows ms: the smallest x1
\* and y1, the largest x2 and y2.
EnvelopeOf(ms) ==
    <<SeqMin([m \in 1..Len(ms) |-> ms[m][5]]), SeqMin([m \in 1..Len(ms) |-> ms[m][6]]),
      SeqMax([m \in 1..Len(ms) |-> ms[m][7]]), SeqMax([m \in 1..Len(ms) |-> ms[m][8]])>>

\* C12: with merge_type = 'biggest' the box of every merged row is the
\* component-wise envelope of its members, which are validated input boxes,
\* whatever their order; and a call given just two boxes of one label whose
\* IoU (validated) exceeds iou_thr returns one box, their envelope.
C12_EnvelopeMerge ==
    (wbf_pc \in {"cluster", "sort", "returned"} /\ wbf_args.merge_type = "biggest") =>
        LET inputs == Flatten(wbf_args.boxes_list)
            in_labels == Flatten(wbf_args.labels_list)
        IN  /\ \A k \in 1..Len(overall_boxes) :
                   /\ Len(overall_members[k]) > 0
                   /\ RecBox(overall_boxes[k]) = EnvelopeOf(overall_members[k])
                   /\ \A m \in 1..Len(overall_members[k]) :
                          \E n \in 1..Len(inputs) :
                              RecBox(overall_members[k][m]) = RepairBox(inputs[n])
            /\ (/\ wbf_pc = "returned" /\ Len(inputs) = 2
                /\ in_labels[1] = in_labels[2]
                /\ IouAbove(RepairBox(inputs[1]), RepairBox(inputs[2]),
                            wbf_args.iou_thr[1], wbf_args.iou_thr[2])) =>
                   fused.boxes = <<merge_boxes(RepairBox(inputs[1]),
                                               RepairBox(inputs[2]))>>

\* C12 witness: a 'biggest' call given the two charts of the L, the second
\* of them with its corners swapped, returned the one box [0, 0, 0.4, 0.4],
\* which is neither of the two.
C12_Witness ==
    /\ wbf_pc = "returned" /\ wbf_args.merge_type = "biggest"
    /\ Len(Flatten(wbf_args.boxes_list)) = 2
    /\ Len(overall_members) = 1 /\ Len(overall_members[1]) = 2
    /\ fused.boxes = <<(<<0, 0, 12000, 12000>>)>>

\* ------------------------------------------------ the clusters of a bucket ---

\* The largest number of boxes of a bucket whose clustering is followed.
MaxBucket == 4

\* Four charts in a row, y from 0 to 0.2, with x from 0.1 to 0.4 (score
\* 0.9), 0.3 to 0.6 (0.8), 0.75 to 0.95 (0.7) and 0.52 to 0.8 (0.6).  By
\* score they are boxes 0, 1, 2, 3 of their bucket; IoU(0, 1) = 0.2,
\* IoU(1, 3) = 0.16, IoU(2, 3) = 5/43, the other pairs are apart: the best
\* match of 2 is 3, the best match of 3 is 1.
ClusterDets ==
    { <<3000, 0, 12000, 6000, 27000, CHART>>,
      <<9000, 0, 18000, 6000, 24000, CHART>>,
      <<22500, 0, 28500, 6000, 21000, CHART>>,
      <<15600, 0, 24000, 6000, 18000, CHART>> }

InitCluster ==
    /\ \E dets \in SeqsUpTo(ClusterDets, MaxBucket) :
           wbf_args = FuseArgs([k \in 1..Len(dets) |-> BoxOf(dets[k])],
                               [k \in 1..Len(dets) |-> dets[k][5]],
                               [k \in 1..Len(dets) |-> dets[k][6]])
    /\ wbf_pc = "call" /\ WbfLocalsUnset /\ first_fused = <<>>
    /\ PipeIdle /\ ChartIdle /\ TableIdle /\ MlIdle

SpecCluster == InitCluster /\ [][NextWbf]_vars

\* C15 (as claimed): when the clustering loop has processed every box of a
\* bucket, every box index of the bucket is in exactly one cluster; and a
\* fusion never returns more boxes than it retained.  Violated: when box j
\* is in no cluster yet and its best match is in a later cluster than the
\* first one found, or j and its match are in two clusters, line 557 puts
\* both in the first and leaves the other as it is.
C15_ClustersPartition ==
    /\ (wbf_pc = "cluster" /\ j > Len(filtered_boxes[label_n].boxes)) =>
           \A i \in 1..Len(filtered_boxes[label_n].boxes) :
               Cardinality({c \in 1..Len(clusters) : i \in Range(clusters[c])}) = 1
    /\ wbf_pc = "returned" =>
           Len(fused.boxes) <= Len(Flatten([n \in 1..Len(filtered_boxes) |->
                                               filtered_boxes[n].boxes]))

\* -------------------------------------------------- the chart/title match rule ---

\* The pass of the loop of expand_chart_bboxes that is about to run: its
\* chart, its pool of titles, and for title k of the pool the score of the
\* proximity rule, min(|title.y2 - chart.y1|, |chart.y2 - title.y1|)
\* + |title.x1 - chart.x1|.
PassChart == chart_loop.chart_bboxes[chart_loop.i]

PassPool == chart_loop.title_bboxes

Proximity(k) ==
    Min(Abs(PassPool[k][4] - PassChart[2]), Abs(PassChart[4] - PassPool[k][2]))
    + Abs(PassPool[k][1] - PassChart[1])

\* The titles of the pool whose IoU with the chart is above 0.01.
Overlapping == {k \in 1..Len(PassPool) : IouAbove(PassPool[k], PassChart, 1, 100)}

\* The titles of the pool nearest to the chart by the proximity rule.
Nearest == {k \in 1..Len(PassPool) : \A m \in 1..Len(PassPool) : Proximity(k) <= Proximity(m)}

\* The pass matched exactly the titles ks of the pool: the chart became
\* the envelope of itself and of them, they left the pool, the others stayed
\* in their order; with ks empty the chart and the pool stay as they are and
\* the chart is counted among the unmatched.
PassMatched(ks) ==
    /\ chart_loop'.title_bboxes =
           Take(PassPool, IndicesOf([k \in 1..Len(PassPool) |-> k \notin ks]))
    /\ chart_loop'.chart_bboxes[chart_loop.i] =
           <<SeqMin(<<PassChart[1]>> \o [k \in 1..Len(PassPool) |->
                        IF k \in ks THEN PassPool[k][1] ELSE PassChart[1]]),
             SeqMin(<<PassChart[2]>> \o [k \in 1..Len(PassPool) |->
                        IF k \in ks THEN PassPool[k][2] ELSE PassChart[2]]),
             SeqMax(<<PassChart[3]>> \o [k \in 1..Len(PassPool) |->
                        IF k \in ks THEN PassPool[k][3] ELSE PassChart[3]]),
             SeqMax(<<PassChart[4]>> \o [k \in 1..Len(PassPool) |->
                        IF k \in ks THEN PassPool[k][4] ELSE PassChart[4]])>>
    /\ (ks = {}) <=> (chart_loop.i \in Range(chart_loop'.no_found_title_idxs))
    /\ (ks # {}) <=> (chart_loop.i \in Range(chart_loop'.found_title_idxs))

\* C13: every pass of the loop matches (a) exactly the titles of the pool
\* whose IoU with the chart is above 0.01 when there are any; (b) otherwise
\* exactly one title, one of the nearest by the proximity rule, when its
\* score is below 0.1; (c) otherwise none, the pool staying as it is; with an
\* empty pool there is never a match.
C13_MatchRule ==
    [][(chart_pc = "loop" /\ chart_loop.i <= Len(chart_loop.chart_bboxes)) =>
          IF Len(PassPool) = 0 THEN PassMatched({})
          ELSE IF Overlapping # {} THEN PassMatched(Overlapping)
          ELSE IF \E k \in Nearest : Proximity(k) < Scale \div 10
               THEN \E k \in Nearest : PassMatched({k})
          ELSE PassMatched({})]_vars

\* C13 witness: the loop is over; one chart took two titles at once, both
\* overlapping it.
C13_Witness ==
    /\ chart_pc = "loop" /\ chart_loop.i > Len(chart_loop.chart_bboxes)
    /\ Len(consumed) = 2 /\ consumed[1][2] = consumed[2][2]
    /\ consumed[1][1] # consumed[2][1]
    /\ Len(fused_titles) = 2

\* ------------------------------------------------ asymmetric chart expansion ---

\* out is the box b scaled about its centre by r_x and r_y (in percent) and
\* clipped to [0, 1]: 200 * out, before the clip, is
\* 100 * (lo + hi) -/+ r * (hi - lo).
ScaledAboutCentre(out, b, r_x, r_y) ==
    /\ 200 * out[1] = Clip(100 * (b[1] + b[3]) - r_x * (b[3] - b[1]), 0, 200 * Scale)
    /\ 200 * out[3] = Clip(100 * (b[1] + b[3]) + r_x * (b[3] - b[1]), 0, 200 * Scale)
    /\ 200 * out[2] = Clip(100 * (b[2] + b[4]) - r_y * (b[4] - b[2]), 0, 200 * Scale)
    /\ 200 * out[4] = Clip(100 * (b[2] + b[4]) + r_y * (b[4] - b[2]), 0, 200 * Scale)

\* The charts of the loop that received at least one title.
ChartsWithTitle == {consumed[k][2] : k \in 1..Len(consumed)}

\* C14: expand_chart_bboxes returns one chart for every fused chart, in the
\* order of the fusion (descending confidence) and with the fused
\* confidence; its box is the pre-expansion box (the fused chart, or its
\* envelope with the matched titles) scaled about its centre by (1.05, 1.10)
\* when the chart received a title and by (1.10, 1.25) when it received
\* none, then clipped to [0, 1]; every fused chart is in exactly one of the
\* two groups.
C14_AsymmetricExpansion ==
    (chart_pc = "returned" /\ Len(annotation_dict.chart) # 0) =>
        /\ Len(chart_ret.chart) = Len(chart_loop.chart_bboxes)
        /\ \A k \in 1..Len(chart_ret.chart) :
               /\ Len(chart_ret.chart[k]) = 5
               /\ chart_ret.chart[k][5] = chart_loop.chart_confidences[k]
               /\ k < Len(chart_ret.chart) =>
                      chart_ret.chart[k][5] >= chart_ret.chart[k + 1][5]
               /\ CountIn(chart_loop.found_title_idxs, k)
                      + CountIn(chart_loop.no_found_title_idxs, k) = 1
               /\ (k \in ChartsWithTitle) <=> (k \in Range(chart_loop.found_title_idxs))
               /\ IF k \in ChartsWithTitle
                  THEN ScaledAboutCentre(BoxOf(chart_ret.chart[k]),
                                         chart_loop.chart_bboxes[k], 105, 110)
                  ELSE ScaledAboutCentre(BoxOf(chart_ret.chart[k]),
                                         chart_loop.chart_bboxes[k], 110, 125)

\* C14 witness: of two charts returned, one had received a title and the
\* other none, and the expansion of one of them was clipped at the edge of
\* the page.
C14_Witness ==
    /\ chart_pc = "returned" /\ Len(chart_ret.chart) = 2
    /\ Len(chart_loop.found_title_idxs) = 1
    /\ Len(chart_loop.no_found_title_idxs) = 1
    /\ \E k \in 1..2 :
           /\ chart_ret.chart[k][3] = Scale
           /\ 200 * Scale < 100 * (chart_loop.chart_bboxes[k][1] + chart_loop.chart_bboxes[k][3])
                  + 110 * (chart_loop.chart_bboxes[k][3] - chart_loop.chart_bboxes[k][1])

\* ------------------------------------------------------------ no chart lost ---

\* The detection or box inner lies inside the detection or box outer.
Contains(outer, inner) ==
    /\ outer[1] <= inner[1] /\ outer[2] <= inner[2]
    /\ inner[3] <= outer[3] /\ inner[4] <= outer[4]

\* A detection whose four coordinates are in [0, 1] and whose area is not 0.
InPageWithArea(d) ==
    /\ \A c \in 1..4 : 0 <= d[c] /\ d[c] <= Scale
    /\ Area(BoxOf(d)) # 0

\* Every input chart in the page and with an area lies inside a chart
\* returned, and no more charts are returned than were given.
ChartsCovered ==
    /\ \A k \in 1..Len(annotation_dict.chart) :
           InPageWithArea(annotation_dict.chart[k]) =>
               \E m \in 1..Len(chart_ret.chart) :
                   Contains(chart_ret.chart[m], annotation_dict.chart[k])
    /\ Len(chart_ret.chart) <= Len(annotation_dict.chart)

=============================================================================
